---- MODULE Spec2Model ----
(***************************************************************************)
(* Series Reconciliation Engine of the Korea market dashboards.            *)
(*                                                                         *)
(* One run of a dashboard script: read the sidebar, fetch the four series  *)
(* (KOSPI, USD/KRW, US Fed Funds through the fallback resolver, BOK Base   *)
(* Rate), align them on the daily calendar [start_date, today], rebase,    *)
(* and hand the frames to the plot.  The four scripts are the values of    *)
(* `variant`.                                                              *)
(*                                                                         *)
(* Dates are proleptic Gregorian ordinals (datetime.date.toordinal).       *)
(* A value is a reduced fraction <<n, d>>; the missing marker NaN is <<>>. *)
(* A pandas Series is a sequence of [t |-> date, v |-> value] in index     *)
(* order; a DataFrame is [index |-> dates, cols |-> name -> values].       *)
(***************************************************************************)
EXTENDS Integers, Sequences, FiniteSets, TLC

VARIABLES
    variant,        \* which dashboard script runs
    pc,             \* position of the script
    start_date,     \* sidebar: start date
    normalize,      \* sidebar: normalize checkbox
    fred_api_key,   \* sidebar: FRED credential
    ecos_api_key,   \* sidebar: ECOS credential
    kospi,          \* fetch_yf(KOSPI, start_date)
    usdk_rw,        \* fetch_yf(USDKRW, start_date)
    effr_raw,       \* series returned by the resolver (bokapi: by fetch_fred_csv)
    fed_src,        \* label returned by the resolver
    bok_base,       \* fetch_bok_base_rate(ecos_api_key, start_date)
    calls,          \* adapters invoked by the script so far, in order
    tried,          \* the resolver's attempts so far: candidate and the series it gave
    requests,       \* outbound network requests issued so far, in order
    df,             \* the aligned table
    plot_df,        \* the frame handed to the plot (left_df and right_df together)
    invocation,     \* one call of one function on its own: its arguments, the upstream
                    \* answer and what it returned
    cache,          \* the entries st.cache_data holds, by function and arguments
    log             \* the calls of the memoized functions so far, in order

\* the state of one run of a script
script == <<variant, pc, start_date, normalize, fred_api_key, ecos_api_key, kospi,
            usdk_rw, effr_raw, fed_src, bok_base, calls, tried, requests, df, plot_df>>

vars == <<variant, pc, start_date, normalize, fred_api_key, ecos_api_key, kospi,
          usdk_rw, effr_raw, fed_src, bok_base, calls, tried, requests, df, plot_df,
          invocation, cache, log>>

-----------------------------------------------------------------------------
(* Bounds of the model *)

\* quote levels start in 0..MaxVal
MaxVal == 1
\* the window [start_date, today] has at most WindowDays days
WindowDays == 3
\* a response handed to one function on its own has at most MaxRows rows
MaxRows == 2
\* a session of the dashboard makes at most MaxCalls calls from the script
MaxCalls == 2

-----------------------------------------------------------------------------
(* Calendar: datetime.date *)

IsLeap(y) == (y % 4 = 0 /\ y % 100 # 0) \/ y % 400 = 0

DaysInMonth(y, m) ==
    IF m = 2 THEN (IF IsLeap(y) THEN 29 ELSE 28)
    ELSE IF m \in {4, 6, 9, 11} THEN 30 ELSE 31

RECURSIVE DaysBeforeMonth(_, _)
DaysBeforeMonth(y, m) ==
    IF m = 1 THEN 0 ELSE DaysBeforeMonth(y, m - 1) + DaysInMonth(y, m - 1)

DaysBeforeYear(y) ==
    365 * (y - 1) + ((y - 1) \div 4) - ((y - 1) \div 100) + ((y - 1) \div 400)

\* dt.date(y, m, d).toordinal()
Ordinal(y, m, d) == DaysBeforeYear(y) + DaysBeforeMonth(y, m) + d

\* d.year, d.month of an ordinal
YearOf(o) ==
    CHOOSE y \in ((o \div 366) - 1)..((o \div 365) + 1) :
        DaysBeforeYear(y) < o /\ o <= DaysBeforeYear(y + 1)

MonthOf(o) ==
    LET y == YearOf(o) IN
    CHOOSE m \in 1..12 :
        /\ Ordinal(y, m, 1) <= o
        /\ o <= Ordinal(y, m, DaysInMonth(y, m))

\* d.weekday(): Monday is 0
Weekday(o) == (o + 6) % 7

IsBusinessDay(o) == Weekday(o) < 5

\* yyyymm(d): the year-month of a date, as the pair the request carries
yyyymm(o) == <<YearOf(o), MonthOf(o)>>

\* mutant of MonthEnd: the row is stamped dt.date(y, m, 1)
MonthEnd_First(y, m) == Ordinal(y, m, 1)

\* mutant of MonthEnd: the month after December is taken in the same year
MonthEnd_SameYear(y, m) ==
    (IF m = 12 THEN Ordinal(y, 1, 1) ELSE Ordinal(y, m + 1, 1)) - 1

\* dt.date(y, m, 1) + relativedelta(months=1) - relativedelta(days=1)
MonthEnd(y, m) ==
    (IF m = 12 THEN Ordinal(y + 1, 1, 1) ELSE Ordinal(y, m + 1, 1)) - 1

\* dt.date.today(): the invocation date, Saturday 2024-06-01
Today == Ordinal(2024, 6, 1)

\* mutant of date_range: the end date is left out
date_range_HalfOpen(start, end) == [i \in 1..(end - start) |-> start + i - 1]

\* pd.date_range(start, end, freq='D')
date_range(start, end) == [i \in 1..(end - start + 1) |-> start + i - 1]

-----------------------------------------------------------------------------
(* Values: floats as exact fractions, NaN as the empty tuple *)

NaN == <<>>

IsNaN(v) == v = <<>>

Num(n) == <<n, 1>>

RECURSIVE Gcd(_, _)
Gcd(a, b) == IF b = 0 THEN a ELSE Gcd(b, a % b)

Abs(n) == IF n < 0 THEN -n ELSE n

Reduce(n, d) ==
    LET g == Gcd(Abs(n), Abs(d))
        s == IF d < 0 THEN -1 ELSE 1
    IN  <<(s * n) \div g, (s * d) \div g>>

IsZero(v) == v[1] = 0

\* v / w and v * w of two floats (w # 0 for the quotient); NaN propagates
Quot(v, w) == IF IsNaN(v) \/ IsNaN(w) THEN NaN ELSE Reduce(v[1] * w[2], v[2] * w[1])

Prod(v, w) == IF IsNaN(v) \/ IsNaN(w) THEN NaN ELSE Reduce(v[1] * w[1], v[2] * w[2])

-----------------------------------------------------------------------------
(* pandas Series and DataFrame *)

EmptySeries == <<>>

\* s.empty
IsEmpty(s) == Len(s) = 0

\* the elements of a sequence
Range(s) == {s[i] : i \in 1..Len(s)}

NotNaNObs(e) == ~IsNaN(e.v)

\* s.dropna()
DropNa(s) == SelectSeq(s, NotNaNObs)

\* the dates of the index of s
IndexOf(s) == {s[i].t : i \in 1..Len(s)}

\* mutant of Reindex: each date takes the value of the latest date of s at or before it
Reindex_Pad(s, idx) ==
    [i \in 1..Len(idx) |->
        IF \E j \in 1..Len(s) : s[j].t <= idx[i]
        THEN s[CHOOSE j \in 1..Len(s) :
                  s[j].t <= idx[i] /\ \A k \in 1..Len(s) : s[k].t <= idx[i] => s[k].t <= s[j].t].v
        ELSE NaN]

\* s.reindex(idx): the value s holds at each date of idx, NaN where s has none
Reindex(s, idx) ==
    [i \in 1..Len(idx) |->
        IF \E j \in 1..Len(s) : s[j].t = idx[i]
        THEN s[CHOOSE j \in 1..Len(s) : s[j].t = idx[i]].v
        ELSE NaN]

\* col.bfill(): each missing cell takes the first non-missing cell after it
RECURSIVE BfillFrom(_, _, _)
BfillFrom(col, i, next) ==
    IF i < 1 THEN <<>>
    ELSE LET cur == IF IsNaN(col[i]) THEN next ELSE col[i]
         IN  BfillFrom(col, i - 1, cur) \o <<cur>>

Bfill(col) == BfillFrom(col, Len(col), NaN)

\* col.ffill(): each missing cell takes the last non-missing cell before it
RECURSIVE FfillFrom(_, _, _)
FfillFrom(col, i, last) ==
    IF i > Len(col) THEN <<>>
    ELSE LET cur == IF IsNaN(col[i]) THEN last ELSE col[i]
         IN  <<cur>> \o FfillFrom(col, i + 1, cur)

\* mutant of Ffill: the column is back-filled after the forward fill
Ffill_ThenBfill(col) == Bfill(FfillFrom(col, 1, NaN))

Ffill(col) == FfillFrom(col, 1, NaN)

NotNaN(v) == ~IsNaN(v)

\* col.dropna() of a column of values
DropNaCol(col) == SelectSeq(col, NotNaN)

\* pd.DataFrame(index=idx)
NewFrame(idx) == [index |-> idx, cols |-> <<>>]

\* df[c] = col
SetCol(f, c, col) ==
    [f EXCEPT !.cols = [n \in (DOMAIN f.cols) \cup {c} |->
                            IF n = c THEN col ELSE f.cols[n]]]

\* df[names]
SelectCols(f, names) ==
    [f EXCEPT !.cols = [n \in (DOMAIN f.cols) \cap names |-> f.cols[n]]]

\* df.empty: an axis of length 0
FrameEmpty(f) == Len(f.index) = 0 \/ DOMAIN f.cols = {}

\* the positions of the rows of f, from i on, that hold a non-missing cell
RECURSIVE RowsWithData(_, _)
RowsWithData(f, i) ==
    IF i > Len(f.index) THEN <<>>
    ELSE (IF \E c \in DOMAIN f.cols : ~IsNaN(f.cols[c][i]) THEN <<i>> ELSE <<>>)
         \o RowsWithData(f, i + 1)

\* df.dropna(how='all'): drop the rows whose every cell is missing
DropNaAllRows(f) ==
    LET rows == RowsWithData(f, 1)
    IN  [index |-> [k \in 1..Len(rows) |-> f.index[rows[k]]],
         cols  |-> [c \in DOMAIN f.cols |->
                        [k \in 1..Len(rows) |-> f.cols[c][rows[k]]]]]

-----------------------------------------------------------------------------
(* JSON values of a response, and what Python does with them *)

\* null, and what dict.get gives for a key that is absent
JNull == [j |-> "null", txt |-> "", n |-> <<>>]

\* a string that is no number: "", "." or other text
JText(txt) == [j |-> "str", txt |-> txt, n |-> <<>>]

\* a string that float() reads as the number v
JNumText(v) == [j |-> "str", txt |-> "number", n |-> v]

\* a JSON number
JNumber(v) == [j |-> "num", txt |-> "", n |-> v]

\* the string "yyyymm" of the year-month ym = <<y, m>>
JYearMonth(ym) == [j |-> "str", txt |-> "yyyymm", n |-> ym]

\* item.get(k)
Get(item, k) == IF k \in DOMAIN item THEN item[k] ELSE JNull

\* bool(x): None, "" and 0 are false
Truthy(x) == (x.j = "str" /\ x.txt # "") \/ (x.j = "num" /\ x.n[1] # 0)

\* a or b or c
Or3(a, b, c) == IF Truthy(a) THEN a ELSE IF Truthy(b) THEN b ELSE c

\* v in (None, "", ".")
IsPlaceholder(v) == v.j = "null" \/ (v.j = "str" /\ v.txt \in {"", "."})

\* int(str(t)[:4]) and int(str(t)[4:6]) succeed
ParsesYearMonth(t) == t.txt = "yyyymm"

\* float(v) succeeds
ParsesFloat(v) == v.n # <<>>

-----------------------------------------------------------------------------
(* The upstream providers: what a request may come back with *)

\* the business days of [a, b], ascending
RECURSIVE BusinessDays(_, _)
BusinessDays(a, b) ==
    IF a > b THEN <<>>
    ELSE (IF IsBusinessDay(a) THEN <<a>> ELSE <<>>) \o BusinessDays(a + 1, b)

\* the first-of-month dates of [a, b], ascending
RECURSIVE MonthStarts(_, _)
MonthStarts(a, b) ==
    IF a > b THEN <<>>
    ELSE (IF a = Ordinal(YearOf(a), MonthOf(a), 1) THEN <<a>> ELSE <<>>)
         \o MonthStarts(a + 1, b)

\* the year-months from ym to last, ascending
RECURSIVE Months(_, _)
Months(ym, last) ==
    IF ym[1] > last[1] \/ (ym[1] = last[1] /\ ym[2] > last[2]) THEN <<>>
    ELSE <<ym>> \o Months(IF ym[2] = 12 THEN <<ym[1] + 1, 1>> ELSE <<ym[1], ym[2] + 1>>, last)

\* rows on the given dates whose values rise by one from v0
Ramp(days, v0) == [i \in 1..Len(days) |-> [t |-> days[i], v |-> Num(v0 + i - 1)]]

\* the same rows with the cell at position k a placeholder
WithHole(rows, k) == [i \in 1..Len(rows) |-> IF i = k THEN [rows[i] EXCEPT !.v = NaN] ELSE rows[i]]

AllHoles(rows) == [i \in 1..Len(rows) |-> [rows[i] EXCEPT !.v = NaN]]

Tails(days) == {SubSeq(days, k, Len(days)) : k \in 1..Len(days)}

\* the public exports hold the whole history, which starts before every window
HistoryFirst == Today - WindowDays

\* the first day of the month of HistoryFirst
HistoryMonthFirst == Ordinal(YearOf(HistoryFirst), MonthOf(HistoryFirst), 1)

\* yf.download(symbol, start=start): daily closes on trading days from start on;
\* the symbol's history begins on any trading day of the window, or there are no rows
QuoteTables(start) ==
    {<<>>} \cup {Ramp(days, v0) : days \in Tails(BusinessDays(start, Today)), v0 \in 0..MaxVal}

\* what the quote provider does with a request: it fails, or it answers with a table
QuoteResponses(start) ==
    {[ok |-> FALSE, rows |-> <<>>]} \cup {[ok |-> TRUE, rows |-> tb] : tb \in QuoteTables(start)}

\* the observation dates of a FRED series in [a, b]: EFFR daily on business days,
\* FEDFUNDS monthly on the first of the month
FredDates(series_id, a, b) ==
    IF series_id = "EFFR" THEN BusinessDays(a, b) ELSE MonthStarts(a, b)

\* a response of api.stlouisfed.org: the request fails, or an observation list
\* restricted to observation_start, a value being a number or the placeholder "."
FredApiResponses(series_id, start) ==
    LET days == FredDates(series_id, start, Today) IN
    {[ok |-> FALSE, obs |-> <<>>], [ok |-> TRUE, obs |-> Ramp(days, 1)]}
    \cup {[ok |-> TRUE, obs |-> WithHole(Ramp(d, 1), 1)] : d \in {days} \ {<<>>}}

\* a response of fredgraph.csv with a body that parses as CSV
CsvTable(cols, rows) == [ok |-> TRUE, parses |-> TRUE, cols |-> cols, rows |-> rows]

\* a response of fredgraph.csv: the request fails, the body is no CSV, the table
\* lacks the DATE or the value column, or the table of the whole history, a cell
\* being a number or "."
FredCsvResponses(series_id) ==
    LET days == FredDates(series_id, IF series_id = "EFFR" THEN HistoryFirst
                                     ELSE HistoryMonthFirst, Today) IN
    {[ok |-> FALSE, parses |-> FALSE, cols |-> FALSE, rows |-> <<>>],
     [ok |-> TRUE, parses |-> FALSE, cols |-> FALSE, rows |-> <<>>],
     CsvTable(FALSE, <<>>), CsvTable(TRUE, Ramp(days, 1))}
    \cup {CsvTable(TRUE, WithHole(Ramp(d, 1), 2)) : d \in {days} \ {<<>>}}
    \cup {CsvTable(TRUE, AllHoles(Ramp(d, 1))) : d \in {days} \ {<<>>}}

\* a response of ecos.bok.or.kr for the months start_m..end_m: the request fails,
\* or a row list, a row being {"TIME": "yyyymm", "DATA_VALUE": "number" or "."}
EcosResponses(start_m, end_m) ==
    LET ms == Months(start_m, end_m)
        Rows(q, v0) == [i \in 1..Len(q) |->
                          [TIME |-> JYearMonth(q[i]), DATA_VALUE |-> JNumText(Num(v0 + i - 1))]]
    IN  {[ok |-> FALSE, row |-> <<>>], [ok |-> TRUE, row |-> <<>>]}
        \cup {[ok |-> TRUE, row |-> Rows(q, 1)] : q \in Tails(ms)}
        \cup {[ok |-> TRUE, row |-> [Rows(q, 1) EXCEPT ![1].DATA_VALUE = JText(".")]] :
                  q \in {ms} \ {<<>>}}

\* the start dates the sidebar offers: the last WindowDays days up to today
StartDates == (Today - WindowDays + 1)..Today

\* the answers each endpoint may give, by request
QuoteResponsesAt == [s \in StartDates |-> QuoteResponses(s)]

FredApiAt == [id \in {"EFFR", "FEDFUNDS"} |-> [s \in StartDates |-> FredApiResponses(id, s)]]

FredCsvAt == [id \in {"EFFR", "FEDFUNDS"} |-> FredCsvResponses(id)]

EcosAt == [s \in StartDates |-> EcosResponses(yyyymm(s), yyyymm(Today))]

-----------------------------------------------------------------------------
(* Source adapters *)

\* one outbound request
Req(host, id) == [host |-> host, id |-> id]

\* one adapter invocation
Call(fn, id) == [fn |-> fn, id |-> id]

\* mutant of yf_download: the error of a failed request comes out of yf.download
yf_download_Raises(resp) == [raised |-> ~resp.ok, rows |-> IF resp.ok THEN resp.rows ELSE <<>>]

\* yf.download(symbol, start=start, ...): yfinance keeps the error of a failed
\* request to itself and hands back a frame without rows
yf_download(resp) == [raised |-> FALSE, rows |-> IF resp.ok THEN resp.rows ELSE <<>>]

\* fetch_yf(symbol, start): the close column of the downloaded frame; there is no
\* try around yf.download
fetch_yf(symbol, start, resp) ==
    LET df_ == yf_download(resp) IN
    [s |-> IF df_.raised THEN EmptySeries
           ELSE IF IsEmpty(df_.rows) THEN EmptySeries
           ELSE df_.rows,
     reqs |-> <<Req("yahoo", symbol)>>,
     raised |-> df_.raised]

\* the statements fetch_fred_csv runs after building the url: requests.get and
\* raise_for_status raise on a failed request, pd.read_csv on a body that is no
\* table; then the column test and the series with non-numeric cells coerced
FredCsvBody(series_id, resp) ==
    [raised |-> ~resp.ok \/ ~resp.parses,
     s |-> IF ~resp.cols THEN EmptySeries ELSE resp.rows]

\* mutant of fetch_fred_csv: a failed request is sent a second time
fetch_fred_csv_Retry(series_id, resp) ==
    LET body == FredCsvBody(series_id, resp) IN
    [s |-> IF body.raised THEN EmptySeries ELSE body.s,
     reqs |-> IF body.raised THEN <<Req("fred_csv", series_id), Req("fred_csv", series_id)>>
              ELSE <<Req("fred_csv", series_id)>>,
     raised |-> FALSE]

\* fetch_fred_csv(series_id) of the dashboards with a resolver: the statements are
\* inside try ... except Exception: return the empty series
fetch_fred_csv(series_id, resp) ==
    LET body == FredCsvBody(series_id, resp) IN
    [s |-> IF body.raised THEN EmptySeries ELSE body.s,
     reqs |-> <<Req("fred_csv", series_id)>>,
     raised |-> FALSE]

\* s[s.index.date >= start]
FromStart(s, start) == LET Keep(e) == e.t >= start IN SelectSeq(s, Keep)

\* mutant of fetch_fred_csv_bokapi: the function keeps count of the calls of the
\* session and gives nothing after the first
fetch_fred_csv_bokapi_Stateful(series_id, start, resp) ==
    LET body == FredCsvBody(series_id, resp) IN
    [s |-> IF body.raised \/ log # <<>> THEN EmptySeries
           ELSE IF ~resp.cols THEN EmptySeries
           ELSE FromStart(body.s, start),
     reqs |-> <<Req("fred_csv", series_id)>>,
     raised |-> body.raised]

\* fetch_fred_csv(series_id, start) of bokapi: the same statements without a try,
\* then the rows from start on
fetch_fred_csv_bokapi(series_id, start, resp) ==
    LET body == FredCsvBody(series_id, resp) IN
    [s |-> IF body.raised THEN EmptySeries
           ELSE IF ~resp.cols THEN EmptySeries
           ELSE FromStart(body.s, start),
     reqs |-> <<Req("fred_csv", series_id)>>,
     raised |-> body.raised]

\* mutant of fetch_fred_api_json: the "if not api_key" return is missing
fetch_fred_api_json_NoGuard(series_id, api_key, start, resp) ==
    [s |-> IF ~resp.ok THEN EmptySeries
           ELSE IF resp.obs = <<>> THEN EmptySeries
           ELSE DropNa(resp.obs),
     reqs |-> <<Req("fred_api", series_id)>>,
     raised |-> FALSE]

\* fetch_fred_api_json(series_id, api_key, start)
fetch_fred_api_json(series_id, api_key, start, resp) ==
    IF api_key = "" THEN [s |-> EmptySeries, reqs |-> <<>>, raised |-> FALSE]
    ELSE [s |-> IF ~resp.ok THEN EmptySeries
                ELSE IF resp.obs = <<>> THEN EmptySeries
                ELSE DropNa(resp.obs),
          reqs |-> <<Req("fred_api", series_id)>>,
          raised |-> FALSE]

\* s.sort_index(): stable, ascending by date
RECURSIVE SortIndex(_)
SortIndex(s) ==
    IF Len(s) <= 1 THEN s
    ELSE LET k == CHOOSE i \in 1..Len(s) :
                    /\ \A j \in 1..Len(s) : s[i].t <= s[j].t
                    /\ \A j \in 1..(i - 1) : s[j].t # s[i].t
             rest == [j \in 1..(Len(s) - 1) |-> IF j < k THEN s[j] ELSE s[j + 1]]
         IN  <<s[k]>> \o SortIndex(rest)

\* the loop of fetch_bok_base_rate over the rows from row i on, times and vals being
\* the two lists so far: a row without a time or with a placeholder value is passed
\* over; int() or dt.date() raising leaves both lists as they are; float() raising
\* comes after times.append, so it leaves times one longer than vals
RECURSIVE BokRows(_, _, _, _)
BokRows(rows, i, times, vals) ==
    IF i > Len(rows) THEN [times |-> times, vals |-> vals]
    ELSE LET item == rows[i]
             t == Or3(Get(item, "TIME"), Get(item, "time"), Get(item, "TIME_PERIOD"))
             v == Or3(Get(item, "DATA_VALUE"), Get(item, "data_value"), Get(item, "OBS_VALUE"))
         IN  IF ~Truthy(t) \/ IsPlaceholder(v) THEN BokRows(rows, i + 1, times, vals)
             ELSE IF ~ParsesYearMonth(t) THEN BokRows(rows, i + 1, times, vals)
             ELSE IF t.n[2] \notin 1..12 THEN BokRows(rows, i + 1, times, vals)
             ELSE IF ~ParsesFloat(v)
                  THEN BokRows(rows, i + 1, Append(times, MonthEnd(t.n[1], t.n[2])), vals)
             ELSE BokRows(rows, i + 1, Append(times, MonthEnd(t.n[1], t.n[2])),
                          Append(vals, v.n))

\* pd.Series(vals, index=pd.to_datetime(times)), for lists of one length
SeriesOfLists(times, vals) == [k \in 1..Len(times) |-> [t |-> times[k], v |-> vals[k]]]

\* fetch_bok_base_rate(api_key, start): whatever is raised after the credential test
\* (a failed request, lists of two lengths handed to pd.Series) ends in the except
fetch_bok_base_rate(api_key, start, resp) ==
    IF api_key = "" THEN [s |-> EmptySeries, reqs |-> <<>>, raised |-> FALSE]
    ELSE LET got == BokRows(resp.row, 1, <<>>, <<>>) IN
         [s |-> IF ~resp.ok THEN EmptySeries
                ELSE IF got.times = <<>> THEN EmptySeries
                ELSE IF Len(got.times) # Len(got.vals) THEN EmptySeries
                ELSE SortIndex(SeriesOfLists(got.times, got.vals)),
          reqs |-> <<Req("ecos", "722Y001")>>,
          raised |-> FALSE]

-----------------------------------------------------------------------------
(* Fallback resolver *)

\* the candidates of load_us_fed_rate, in the order the function tries them
Candidates ==
    <<[fn |-> "fetch_fred_api_json", id |-> "EFFR", label |-> "EFFR via FRED API (daily)"],
      [fn |-> "fetch_fred_csv", id |-> "EFFR", label |-> "EFFR via CSV (daily)"],
      [fn |-> "fetch_fred_api_json", id |-> "FEDFUNDS",
       label |-> "FEDFUNDS via FRED API (monthly avg)"],
      [fn |-> "fetch_fred_csv", id |-> "FEDFUNDS", label |-> "FEDFUNDS via CSV (monthly avg)"]>>

\* the position of the script at candidate i
FedPc(i) == <<"fed_api_effr", "fed_csv_effr", "fed_api_ff", "fed_csv_ff">>[i]

\* mutant of Usable: the test without "s.dropna().size > 0"
Usable_NonEmpty(s) == ~IsEmpty(s)

\* not s.empty and s.dropna().size > 0
Usable(s) == ~IsEmpty(s) /\ Len(DropNa(s)) > 0

\* mutant of AfterCandidate: the "return" of an accepted candidate is missing
AfterCandidate_NoReturn(i, s) ==
    IF i < Len(Candidates)
    THEN [pc |-> FedPc(i + 1), s |-> IF Usable(s) THEN s ELSE EmptySeries,
          src |-> IF Usable(s) THEN Candidates[i].label ELSE ""]
    ELSE [pc |-> "fetch_bok", s |-> IF Usable(s) THEN s ELSE EmptySeries,
          src |-> IF Usable(s) THEN Candidates[i].label ELSE "unavailable"]

\* where load_us_fed_rate goes after candidate i gave s: it returns s, or it falls
\* through to the next candidate, or it returns the empty series as "unavailable"
AfterCandidate(i, s) ==
    IF Usable(s) THEN [pc |-> "fetch_bok", s |-> s, src |-> Candidates[i].label]
    ELSE IF i < Len(Candidates) THEN [pc |-> FedPc(i + 1), s |-> EmptySeries, src |-> ""]
    ELSE [pc |-> "fetch_bok", s |-> EmptySeries, src |-> "unavailable"]

\* where it goes when the "if fred_api_key:" around an API candidate is not taken
SkipCandidate(i) == [pc |-> FedPc(i + 1), s |-> EmptySeries, src |-> ""]

-----------------------------------------------------------------------------
(* Calendar aligner and rebasing *)

KOSPI == "^KS11"
USDKRW == "KRW=X"

\* korea_market_dashboard.py and korea_market_dashboard_dualaxis_bars.py share their
\* fetchers, frame and rebasing line for line: "dualaxis" stands for both
Variants == {"dualaxis", "bokapi_v2", "bokapi"}

\* the scripts with a right axis for the rates and the fallback resolver
DualAxis == {"dualaxis"}

\* the scripts that call load_us_fed_rate
WithResolver == {"dualaxis", "bokapi_v2"}

LeftNames == {"KOSPI", "USD/KRW"}

RateNames == {"US Fed Funds (%)", "BOK Base Rate (%)"}

\* mutant of FedColumn: the column is forward-filled only
FedColumn_FfillOnly(v, f, idx, effr_s) ==
    IF ~IsEmpty(effr_s) /\ ~IsEmpty(DropNaCol(Ffill(Reindex(effr_s, idx))))
    THEN SetCol(f, "US Fed Funds (%)", Ffill(Reindex(effr_s, idx)))
    ELSE f

\* the US Fed Funds column of the frame, or the frame as it is
FedColumn(v, f, idx, effr_s) ==
    IF v \in DualAxis
    THEN IF ~IsEmpty(effr_s)
         THEN LET effr == Bfill(Ffill(Reindex(effr_s, idx)))
              IN  IF ~IsEmpty(DropNaCol(effr)) THEN SetCol(f, "US Fed Funds (%)", effr) ELSE f
         ELSE f
    ELSE IF v = "bokapi_v2"
    THEN LET effr == Bfill(Ffill(Reindex(effr_s, idx)))
         IN  IF ~IsEmpty(DropNaCol(effr)) THEN SetCol(f, "US Fed Funds (%)", effr) ELSE f
    ELSE IF ~IsEmpty(effr_s) THEN SetCol(f, "US Fed Funds (%)", Ffill(Reindex(effr_s, idx)))
         ELSE f

\* "Build daily frame": the frame before the Clean step
BuildDailyFrame(v, start, kospi_s, usdk_rw_s, effr_s, bok_s) ==
    LET idx == date_range(start, Today)
        f0  == NewFrame(idx)
        f1  == IF ~IsEmpty(kospi_s) THEN SetCol(f0, "KOSPI", Ffill(Reindex(kospi_s, idx))) ELSE f0
        f2  == IF ~IsEmpty(usdk_rw_s)
               THEN SetCol(f1, "USD/KRW", Ffill(Reindex(usdk_rw_s, idx))) ELSE f1
        f3  == FedColumn(v, f2, idx, effr_s)
    IN  IF ~IsEmpty(bok_s)
        THEN SetCol(f3, "BOK Base Rate (%)", Ffill(Reindex(bok_s, idx))) ELSE f3

\* "Clean": df = df.dropna(how='all'), in the single-axis scripts only
Clean(v, f) == IF v \in DualAxis THEN f ELSE DropNaAllRows(f)

\* mutant of RebasedNames: the dual-axis scripts rebase every column
RebasedNames_All(v, f) == DOMAIN f.cols

\* the columns the script rebases when the checkbox is set
RebasedNames(v, f) == IF v \in DualAxis THEN (DOMAIN f.cols) \cap LeftNames ELSE DOMAIN f.cols

\* col.dropna().iloc[0] raises IndexError on a column without a value
HasFirstValid(col) == ~IsEmpty(DropNaCol(col))

FirstValid(col) == DropNaCol(col)[1]

\* mutant of Rebase: the base is the last value instead of the first
Rebase_ByLast(col) ==
    LET fv == DropNaCol(col)[Len(DropNaCol(col))]
    IN  IF ~IsZero(fv) THEN [i \in 1..Len(col) |-> Prod(Quot(col[i], fv), Num(100))] ELSE col

\* (col / fv) * 100.0 when fv != 0
Rebase(col) ==
    LET fv == FirstValid(col)
    IN  IF ~IsZero(fv) THEN [i \in 1..Len(col) |-> Prod(Quot(col[i], fv), Num(100))] ELSE col

\* the frame the plot draws: left_df beside df[rates_cols], or plot_df
Normalized(v, f, norm) ==
    LET shown == IF v \in DualAxis
                 THEN SelectCols(f, (DOMAIN f.cols) \cap (LeftNames \cup RateNames)) ELSE f
        doit  == IF v \in DualAxis
                 THEN norm /\ ~FrameEmpty(SelectCols(f, (DOMAIN f.cols) \cap LeftNames))
                 ELSE norm
    IN  [shown EXCEPT !.cols = [c \in DOMAIN shown.cols |->
            IF doit /\ c \in RebasedNames(v, f) THEN Rebase(f.cols[c]) ELSE f.cols[c]]]

\* mutant of TableAfterRebase: the loop assigns to the table itself, no copy is made
TableAfterRebase_NoCopy(f, drawn) ==
    [f EXCEPT !.cols = [c \in DOMAIN f.cols |->
        IF c \in DOMAIN drawn.cols THEN drawn.cols[c] ELSE f.cols[c]]]

\* df after the loop: left_df = df[left_cols].copy() and plot_df = df.copy() are
\* copies, the assignments of the loop go to them and df stays as built
TableAfterRebase(f, drawn) == f

\* whether the rebasing loop raises
NormalizeRaises(v, f, norm) ==
    /\ norm
    /\ \E c \in RebasedNames(v, f) : ~HasFirstValid(f.cols[c])

-----------------------------------------------------------------------------
(* One run of a script *)

\* no function is called on its own during a run of a script
NoInvocation == [fn |-> ""]

NoFrame == [index |-> <<>>, cols |-> <<>>]

Init ==
    /\ variant \in Variants
    /\ pc = "fetch_kospi"
    /\ start_date \in StartDates
    /\ normalize \in BOOLEAN
    /\ fred_api_key \in IF variant \in WithResolver THEN {"", "key"} ELSE {""}
    /\ ecos_api_key \in {"", "key"}
    /\ kospi = EmptySeries
    /\ usdk_rw = EmptySeries
    /\ effr_raw = EmptySeries
    /\ fed_src = ""
    /\ bok_base = EmptySeries
    /\ calls = <<>>
    /\ tried = <<>>
    /\ requests = <<>>
    /\ df = NoFrame
    /\ plot_df = NoFrame
    /\ invocation = NoInvocation
    /\ cache = {}
    /\ log = <<>>

\* kospi = fetch_yf(KOSPI, start_date)
FetchKospi ==
    /\ pc = "fetch_kospi"
    /\ \E resp \in QuoteResponsesAt[start_date] :
         LET got == fetch_yf(KOSPI, start_date, resp) IN
         /\ kospi' = got.s
         /\ calls' = Append(calls, Call("fetch_yf", KOSPI))
         /\ requests' = requests \o got.reqs
         /\ pc' = IF got.raised THEN "fetch_fault" ELSE "fetch_usdkrw"
    /\ UNCHANGED <<invocation, cache, log, variant, tried, start_date, normalize, fred_api_key, ecos_api_key, usdk_rw,
                   effr_raw, fed_src, bok_base, df, plot_df>>

\* usdk_rw = fetch_yf(USDKRW, start_date)
FetchUsdKrw ==
    /\ pc = "fetch_usdkrw"
    /\ \E resp \in QuoteResponsesAt[start_date] :
         LET got == fetch_yf(USDKRW, start_date, resp) IN
         /\ usdk_rw' = got.s
         /\ calls' = Append(calls, Call("fetch_yf", USDKRW))
         /\ requests' = requests \o got.reqs
         /\ pc' = IF got.raised THEN "fetch_fault"
                  ELSE IF variant \in WithResolver THEN FedPc(1) ELSE "fetch_fed_csv"
    /\ UNCHANGED <<invocation, cache, log, variant, tried, start_date, normalize, fred_api_key, ecos_api_key, kospi,
                   effr_raw, fed_src, bok_base, df, plot_df>>

\* one API candidate of load_us_fed_rate: "if fred_api_key:", the fetch, the test
TryApi(i) ==
    /\ pc = FedPc(i)
    /\ IF fred_api_key = ""
       THEN /\ pc' = SkipCandidate(i).pc
            /\ UNCHANGED <<effr_raw, fed_src, calls, tried, requests>>
       ELSE \E resp \in FredApiAt[Candidates[i].id][start_date] :
              LET got == fetch_fred_api_json(Candidates[i].id, fred_api_key, start_date, resp)
                  to  == AfterCandidate(i, got.s)
              IN  /\ pc' = to.pc
                  /\ effr_raw' = to.s
                  /\ fed_src' = to.src
                  /\ calls' = Append(calls, Call(Candidates[i].fn, Candidates[i].id))
                  /\ tried' = Append(tried, [cand |-> i, s |-> got.s])
                  /\ requests' = requests \o got.reqs
    /\ UNCHANGED <<invocation, cache, log, variant, start_date, normalize, fred_api_key, ecos_api_key, kospi,
                   usdk_rw, bok_base, df, plot_df>>

\* one CSV candidate of load_us_fed_rate: the fetch, the test
TryCsv(i) ==
    /\ pc = FedPc(i)
    /\ \E resp \in FredCsvAt[Candidates[i].id] :
         LET got == fetch_fred_csv(Candidates[i].id, resp)
             to  == AfterCandidate(i, got.s)
         IN  /\ pc' = to.pc
             /\ effr_raw' = to.s
             /\ fed_src' = to.src
             /\ calls' = Append(calls, Call(Candidates[i].fn, Candidates[i].id))
             /\ tried' = Append(tried, [cand |-> i, s |-> got.s])
             /\ requests' = requests \o got.reqs
    /\ UNCHANGED <<invocation, cache, log, variant, start_date, normalize, fred_api_key, ecos_api_key, kospi,
                   usdk_rw, bok_base, df, plot_df>>

\* effr_raw, fed_src = load_us_fed_rate(fred_api_key, start_date), candidate by candidate
TryApiEffr == TryApi(1)

TryCsvEffr == TryCsv(2)

TryApiFedfunds == TryApi(3)

TryCsvFedfunds == TryCsv(4)

\* effr = fetch_fred_csv(EFFR_ID, start_date) of bokapi: no try around the request,
\* so a failed request ends the script
FetchFredCsvDirect ==
    /\ pc = "fetch_fed_csv"
    /\ \E resp \in FredCsvAt["EFFR"] :
         LET got == fetch_fred_csv_bokapi("EFFR", start_date, resp) IN
         /\ effr_raw' = got.s
         /\ pc' = IF got.raised THEN "fetch_fault" ELSE "fetch_bok"
         /\ requests' = requests \o got.reqs
    /\ calls' = Append(calls, Call("fetch_fred_csv", "EFFR"))
    /\ UNCHANGED <<invocation, cache, log, variant, tried, start_date, normalize, fred_api_key, ecos_api_key, kospi,
                   usdk_rw, fed_src, bok_base, df, plot_df>>

\* bok_base = fetch_bok_base_rate(ecos_api_key, start_date)
FetchBok ==
    /\ pc = "fetch_bok"
    /\ \E resp \in EcosAt[start_date] :
         LET got == fetch_bok_base_rate(ecos_api_key, start_date, resp) IN
         /\ bok_base' = got.s
         /\ requests' = requests \o got.reqs
    /\ calls' = Append(calls, Call("fetch_bok_base_rate", ""))
    /\ pc' = "build"
    /\ UNCHANGED <<invocation, cache, log, variant, tried, start_date, normalize, fred_api_key, ecos_api_key, kospi,
                   usdk_rw, effr_raw, fed_src, df, plot_df>>

\* "Build daily frame" and "Clean"; the single-axis scripts stop on an empty frame
BuildFrame ==
    /\ pc = "build"
    /\ df' = Clean(variant, BuildDailyFrame(variant, start_date, kospi, usdk_rw,
                                            effr_raw, bok_base))
    /\ pc' = IF variant \notin DualAxis /\ FrameEmpty(df') THEN "stopped" ELSE "normalize"
    /\ UNCHANGED <<invocation, cache, log, variant, tried, start_date, normalize, fred_api_key, ecos_api_key, kospi,
                   usdk_rw, effr_raw, fed_src, bok_base, calls, requests, plot_df>>

\* "Normalize" and the plot: the rebased copy is drawn, or the loop raises
Normalize ==
    /\ pc = "normalize"
    /\ IF NormalizeRaises(variant, df, normalize)
       THEN pc' = "fault" /\ UNCHANGED <<plot_df, df>>
       ELSE /\ pc' = "done"
            /\ plot_df' = Normalized(variant, df, normalize)
            /\ df' = TableAfterRebase(df, Normalized(variant, df, normalize))
    /\ UNCHANGED <<invocation, cache, log, variant, tried, start_date, normalize, fred_api_key, ecos_api_key, kospi,
                   usdk_rw, effr_raw, fed_src, bok_base, calls, requests>>

Next ==
    \/ FetchKospi
    \/ FetchUsdKrw
    \/ TryApiEffr
    \/ TryCsvEffr
    \/ TryApiFedfunds
    \/ TryCsvFedfunds
    \/ FetchFredCsvDirect
    \/ FetchBok
    \/ BuildFrame
    \/ Normalize

Spec == Init /\ [][Next]_vars

-----------------------------------------------------------------------------
(* One call of one function on its own, whatever the upstream answers *)

\* the sequences of at most n elements of S
SeqsUpTo(S, n) == UNION {[1..k -> S] : k \in 0..n}

\* a date/value row of any day from the day before the earliest start to today,
\* the value a number or a placeholder
AnyRows == [t : (Today - WindowDays)..Today, v : {Num(1), Num(2), NaN}]

\* the tables an endpoint may answer with: any rows in any order, repeats included
AnyTables(n) == SeqsUpTo(AnyRows, n)

\* the tables whose dates are strictly increasing
IsSorted(s) == \A i \in 1..(Len(s) - 1) : s[i].t < s[i + 1].t

SortedTables(n) == {tb \in AnyTables(n) : IsSorted(tb)}

\* year-months of ECOS rows: February in leap and common years, December, a month
\* of the window, and two months that are none
AnyYearMonths ==
    {<<1900, 2>>, <<2000, 2>>, <<2023, 2>>, <<2024, 2>>, <<2024, 5>>, <<2024, 12>>,
     <<2024, 0>>, <<2024, 13>>}

\* the values a cell of an ECOS row may hold
AnyCells ==
    {JNumText(Num(1)), JNumText(Num(0)), JNumber(Num(1)), JNumber(Num(0)),
     JText(""), JText("."), JText("-"), JNull}

May == JYearMonth(<<2024, 5>>)

December == JYearMonth(<<2024, 12>>)

One == JNumText(Num(1))

Two == JNumText(Num(2))

\* the rows of an ECOS answer: every year-month, every value, and every way of
\* naming the two fields, one or two keys of a field being present
AnyEcosRows ==
    {[TIME |-> JYearMonth(ym), DATA_VALUE |-> One] : ym \in AnyYearMonths}
    \cup {[TIME |-> May, DATA_VALUE |-> c] : c \in AnyCells}
    \cup {[TIME |-> May], [DATA_VALUE |-> One],
          [time |-> May, DATA_VALUE |-> One], [TIME_PERIOD |-> May, DATA_VALUE |-> One],
          [TIME |-> May, data_value |-> One], [TIME |-> May, OBS_VALUE |-> One],
          [time |-> May, data_value |-> One], [TIME_PERIOD |-> May, OBS_VALUE |-> One],
          [TIME |-> JText(""), time |-> May, DATA_VALUE |-> One],
          [TIME |-> JNull, TIME_PERIOD |-> May, DATA_VALUE |-> One],
          [TIME |-> JText("2024"), DATA_VALUE |-> One],
          [TIME |-> May, time |-> December, DATA_VALUE |-> One],
          [time |-> May, TIME_PERIOD |-> December, DATA_VALUE |-> One],
          [TIME |-> May, DATA_VALUE |-> One, data_value |-> Two],
          [TIME |-> May, data_value |-> One, OBS_VALUE |-> Two],
          [TIME |-> May, DATA_VALUE |-> JText(""), data_value |-> Two],
          [TIME |-> May, DATA_VALUE |-> JNumber(Num(0)), OBS_VALUE |-> Two],
          [TIME |-> May, OBS_VALUE |-> JNumber(Num(0))]}

AnyEcosTables(n) == SeqsUpTo(AnyEcosRows, n)

\* a call about to be made: the function, its arguments, the upstream answer
Invoked(fn, id, api_key, start, resp) ==
    [fn |-> fn, id |-> id, api_key |-> api_key, start |-> start, resp |-> resp,
     returned |-> FALSE, ret |-> [s |-> <<>>, reqs |-> <<>>, raised |-> FALSE]]

\* the request fails, or the endpoint answers with a table
AnyQuoteResponses(n) == {[ok |-> FALSE, rows |-> <<>>]} \cup {[ok |-> TRUE, rows |-> tb] : tb \in AnyTables(n)}

AnyCsvResponses(n) ==
    {[ok |-> FALSE, parses |-> FALSE, cols |-> FALSE, rows |-> <<>>],
     [ok |-> TRUE, parses |-> FALSE, cols |-> FALSE, rows |-> <<>>],
     CsvTable(FALSE, <<>>)}
    \cup {CsvTable(TRUE, tb) : tb \in AnyTables(n)}

AnyApiResponses(n) == {[ok |-> FALSE, obs |-> <<>>]} \cup {[ok |-> TRUE, obs |-> tb] : tb \in AnyTables(n)}

AnyEcosResponses(n) == {[ok |-> FALSE, row |-> <<>>]} \cup {[ok |-> TRUE, row |-> tb] : tb \in AnyEcosTables(n)}

\* the columns that are forward-filled only, and the script that fills them so
FfillOnlyColumns == {"KOSPI", "USD/KRW", "BOK Base Rate (%)", "US Fed Funds (%)"}

\* "US Fed Funds (%)" is forward-filled only in bokapi
ScriptOf(c) == IF c = "US Fed Funds (%)" THEN "bokapi" ELSE "dualaxis"

\* the calls examined: each adapter with every answer, and "Build daily frame" with
\* one series in the place of a column
Invocations(inv) ==
    \/ \E sym \in {KOSPI, USDKRW}, r \in AnyQuoteResponses(MaxRows) :
          inv = Invoked("fetch_yf", sym, "", Today, r)
    \/ \E id \in {"EFFR", "FEDFUNDS"}, r \in AnyCsvResponses(MaxRows) :
          inv = Invoked("fetch_fred_csv", id, "", Today, r)
    \/ \E s \in StartDates, r \in AnyCsvResponses(MaxRows) :
          inv = Invoked("fetch_fred_csv_bokapi", "EFFR", "", s, r)
    \/ \E id \in {"EFFR", "FEDFUNDS"}, k \in {"", "key"}, r \in AnyApiResponses(MaxRows) :
          inv = Invoked("fetch_fred_api_json", id, k, Today, r)
    \/ \E r \in AnyEcosResponses(MaxRows) : inv = Invoked("fetch_bok_base_rate", "", "key", Today, r)
    \/ inv = Invoked("fetch_bok_base_rate", "", "", Today, [ok |-> TRUE, row |-> <<>>])
    \/ \E c \in FfillOnlyColumns, s \in StartDates, tb \in SortedTables(MaxRows) :
          inv = Invoked("build_daily_frame", c, "", s, [ok |-> TRUE, rows |-> tb])

\* the script is not running
Idle ==
    /\ variant = "dualaxis"
    /\ pc = "idle"
    /\ start_date = Today
    /\ normalize = FALSE
    /\ fred_api_key = ""
    /\ ecos_api_key = ""
    /\ kospi = EmptySeries
    /\ usdk_rw = EmptySeries
    /\ effr_raw = EmptySeries
    /\ fed_src = ""
    /\ bok_base = EmptySeries
    /\ calls = <<>>
    /\ tried = <<>>
    /\ requests = <<>>
    /\ df = NoFrame
    /\ plot_df = NoFrame

AdapterInit ==
    /\ Idle
    /\ Invocations(invocation)
    /\ cache = {}
    /\ log = <<>>

\* the call of fn returns out
Returns(fn, out) ==
    /\ invocation.fn = fn
    /\ ~invocation.returned
    /\ invocation' = [invocation EXCEPT !.returned = TRUE, !.ret = out]
    /\ UNCHANGED <<script, cache, log>>

CallFetchYf ==
    Returns("fetch_yf", fetch_yf(invocation.id, invocation.start, invocation.resp))

CallFetchFredCsv ==
    Returns("fetch_fred_csv", fetch_fred_csv(invocation.id, invocation.resp))

CallFetchFredCsvBokapi ==
    Returns("fetch_fred_csv_bokapi",
            fetch_fred_csv_bokapi(invocation.id, invocation.start, invocation.resp))

CallFetchFredApiJson ==
    Returns("fetch_fred_api_json",
            fetch_fred_api_json(invocation.id, invocation.api_key, invocation.start,
                                invocation.resp))

CallFetchBokBaseRate ==
    Returns("fetch_bok_base_rate",
            fetch_bok_base_rate(invocation.api_key, invocation.start, invocation.resp))

\* "Build daily frame" with the one series as the column invocation.id
CallBuildDailyFrame ==
    LET On(name) == IF invocation.id = name THEN invocation.resp.rows ELSE EmptySeries
    IN  Returns("build_daily_frame",
                BuildDailyFrame(ScriptOf(invocation.id), invocation.start, On("KOSPI"), On("USD/KRW"),
                                On("US Fed Funds (%)"), On("BOK Base Rate (%)")))

AdapterNext ==
    \/ CallFetchYf
    \/ CallFetchFredCsv
    \/ CallFetchFredCsvBokapi
    \/ CallFetchFredApiJson
    \/ CallFetchBokBaseRate
    \/ CallBuildDailyFrame

AdapterSpec == AdapterInit /\ [][AdapterNext]_vars

-----------------------------------------------------------------------------
(* A session: the script is rerun with new sidebar inputs while the upstream data
   change, and its calls go through st.cache_data *)

\* the start dates and credentials of the reruns
SessionStarts == {Today - 1, Today}

SessionKeys == {"", "key"}

\* what an endpoint holds at the time of a call: nothing it can deliver, or one
\* observation of today with the value 1 or 2
Worlds == {"fail", "one", "two"}

\* the upstream data at the time of a call: first what the endpoint of the call (of
\* EFFR for the resolver) holds, then what the endpoints of FEDFUNDS hold
Upstream(w, ff) == [main |-> w, fedfunds |-> ff]

TableOf(w) == <<[t |-> Today, v |-> IF w = "one" THEN Num(1) ELSE Num(2)]>>

QuoteOf(w) == IF w = "fail" THEN [ok |-> FALSE, rows |-> <<>>] ELSE [ok |-> TRUE, rows |-> TableOf(w)]

CsvOf(w) ==
    IF w = "fail" THEN [ok |-> FALSE, parses |-> FALSE, cols |-> FALSE, rows |-> <<>>]
    ELSE CsvTable(TRUE, TableOf(w))

ApiOf(w) == IF w = "fail" THEN [ok |-> FALSE, obs |-> <<>>] ELSE [ok |-> TRUE, obs |-> TableOf(w)]

EcosOf(w) ==
    IF w = "fail" THEN [ok |-> FALSE, row |-> <<>>]
    ELSE [ok |-> TRUE, row |-> <<[TIME |-> May, DATA_VALUE |-> IF w = "one" THEN One ELSE Two]>>]

\* the arguments of a call; a function without the parameter gets "" or 0
Args(id, api_key, start) == [id |-> id, api_key |-> api_key, start |-> start]

\* the body of an adapter run on its arguments against the upstream data
AdapterBody(fn, a, up) ==
    CASE fn = "fetch_yf" -> fetch_yf(a.id, a.start, QuoteOf(up.main))
      [] fn = "fetch_fred_csv" -> fetch_fred_csv(a.id, CsvOf(up.main))
      [] fn = "fetch_fred_csv_bokapi" -> fetch_fred_csv_bokapi(a.id, a.start, CsvOf(up.main))
      [] fn = "fetch_fred_api_json" -> fetch_fred_api_json(a.id, a.api_key, a.start, ApiOf(up.main))
      [] fn = "fetch_bok_base_rate" -> fetch_bok_base_rate(a.api_key, a.start, EcosOf(up.main))

\* what a call hands back: the series, the label of the resolver, whether it raised
Result(s, src, raised) == [s |-> s, src |-> src, raised |-> raised]

AdapterResult(fn, a, up) ==
    LET got == AdapterBody(fn, a, up) IN Result(got.s, "", got.raised)

\* mutant of CacheKey: the key is the function and the identifier, without the start
\* date and the credential
CacheKey_IdOnly(fn, a) == [fn |-> fn, id |-> a.id, api_key |-> "", start |-> 0]

\* @st.cache_data: the key of an entry is the function and the values of all its
\* arguments
CacheKey(fn, a) == [fn |-> fn, id |-> a.id, api_key |-> a.api_key, start |-> a.start]

\* the entries st.cache_data holds for the call
Entries(c, fn, a) == {e \in c : e.key = CacheKey(fn, a)}

\* one call in the log: the function, its arguments, the upstream data at that
\* time, whether st.cache_data answered it, the call that computed the result
Logged(fn, a, up, hit, by, ret) ==
    [fn |-> fn, id |-> a.id, api_key |-> a.api_key, start |-> a.start, up |-> up,
     hit |-> hit, by |-> by, ret |-> ret]

\* a call of a decorated function with the cache c and the log l: a stored result is
\* handed back without running the body; otherwise the body runs and its result is
\* stored; there is no ttl, an entry stays for the session
Cached(c, l, fn, a, up, ret) ==
    IF Entries(c, fn, a) # {}
    THEN LET e == CHOOSE e \in Entries(c, fn, a) : TRUE IN
         [cache |-> c, log |-> Append(l, Logged(fn, a, up, TRUE, e.by, e.ret)), ret |-> e.ret]
    ELSE [cache |-> c \cup {[key |-> CacheKey(fn, a), by |-> Len(l) + 1, ret |-> ret]},
          log |-> Append(l, Logged(fn, a, up, FALSE, Len(l) + 1, ret)),
          ret |-> ret]

\* the arguments load_us_fed_rate hands to candidate i
CandidateArgs(i, api_key, start) ==
    IF Candidates[i].fn = "fetch_fred_api_json" THEN Args(Candidates[i].id, api_key, start)
    ELSE Args(Candidates[i].id, "", 0)

\* the body of load_us_fed_rate(fred_api_key, start_date) from candidate i on, each
\* candidate being a call of a decorated adapter
RECURSIVE ResolveFrom(_, _, _, _, _, _)
ResolveFrom(i, c, l, api_key, start, up) ==
    LET cand == Candidates[i]
        a    == CandidateArgs(i, api_key, start)
        w    == Upstream(IF cand.id = "EFFR" THEN up.main ELSE up.fedfunds, "fail")
    IN  IF cand.fn = "fetch_fred_api_json" /\ api_key = ""
        THEN ResolveFrom(i + 1, c, l, api_key, start, up)
        ELSE LET r  == Cached(c, l, cand.fn, a, w, AdapterResult(cand.fn, a, w))
                 to == AfterCandidate(i, r.ret.s)
             IN  IF to.pc = "fetch_bok" THEN [cache |-> r.cache, log |-> r.log,
                                              ret |-> Result(to.s, to.src, FALSE)]
                 ELSE ResolveFrom(i + 1, r.cache, r.log, api_key, start, up)

\* a call of the decorated load_us_fed_rate
CachedResolve(c, l, a, up) ==
    IF Entries(c, "load_us_fed_rate", a) # {}
    THEN Cached(c, l, "load_us_fed_rate", a, up, Result(EmptySeries, "", FALSE))
    ELSE LET r == ResolveFrom(1, c, l, a.api_key, a.start, up)
         IN  Cached(r.cache, r.log, "load_us_fed_rate", a, up, r.ret)

\* the calls the script has made so far, those a resolver made left out
FromScript(l) ==
    Cardinality({i \in 1..Len(l) : l[i].fn \notin {"fetch_fred_api_json", "fetch_fred_csv"}})

SessionInit ==
    /\ Idle
    /\ invocation = NoInvocation
    /\ cache = {}
    /\ log = <<>>

\* the call of the decorated adapter fn in the session as it stands
CallCached(fn, a, up) == Cached(cache, log, fn, a, up, AdapterResult(fn, a, up))

\* kospi = fetch_yf(KOSPI, start_date); usdk_rw = fetch_yf(USDKRW, start_date)
SessionFetchYf ==
    /\ FromScript(log) < MaxCalls
    /\ \E sym \in {KOSPI, USDKRW}, s \in SessionStarts, w \in Worlds :
         LET r == CallCached("fetch_yf", Args(sym, "", s), Upstream(w, "fail")) IN
         /\ cache' = r.cache
         /\ log' = r.log
    /\ UNCHANGED <<script, invocation>>

\* bok_base = fetch_bok_base_rate(ecos_api_key, start_date)
SessionFetchBok ==
    /\ FromScript(log) < MaxCalls
    /\ \E k \in SessionKeys, s \in SessionStarts, w \in Worlds :
         LET r == CallCached("fetch_bok_base_rate", Args("", k, s), Upstream(w, "fail")) IN
         /\ cache' = r.cache
         /\ log' = r.log
    /\ UNCHANGED <<script, invocation>>

\* effr_raw, fed_src = load_us_fed_rate(fred_api_key, start_date)
SessionLoadUsFedRate ==
    /\ FromScript(log) < MaxCalls
    /\ \E k \in SessionKeys, s \in SessionStarts, w \in Worlds, ff \in {"fail", "one"} :
         LET r == CachedResolve(cache, log, Args("", k, s), Upstream(w, ff)) IN
         /\ cache' = r.cache
         /\ log' = r.log
    /\ UNCHANGED <<script, invocation>>

\* effr = fetch_fred_csv(EFFR_ID, start_date) of bokapi, which is not decorated: the
\* body runs at every call
SessionFetchFredCsvBokapi ==
    /\ FromScript(log) < MaxCalls
    /\ \E s \in SessionStarts, w \in Worlds :
         LET a  == Args("EFFR", "", s)
             up == Upstream(w, "fail")
         IN  log' = Append(log, Logged("fetch_fred_csv_bokapi", a, up, FALSE, Len(log) + 1,
                                       AdapterResult("fetch_fred_csv_bokapi", a, up)))
    /\ UNCHANGED <<script, invocation, cache>>

SessionNext ==
    \/ SessionFetchYf
    \/ SessionFetchBok
    \/ SessionLoadUsFedRate
    \/ SessionFetchFredCsvBokapi

SessionSpec == SessionInit /\ [][SessionNext]_vars

-----------------------------------------------------------------------------
(* Properties of the fallback resolver and of the credentials *)

\* s holds a non-missing value
HasValue(s) == \E k \in 1..Len(s) : s[k].v # NaN

\* the priority order the resolver is to follow
PriorityOrder ==
    <<Call("fetch_fred_api_json", "EFFR"), Call("fetch_fred_csv", "EFFR"),
      Call("fetch_fred_api_json", "FEDFUNDS"), Call("fetch_fred_csv", "FEDFUNDS")>>

FedLabels ==
    {"EFFR via FRED API (daily)", "EFFR via CSV (daily)",
     "FEDFUNDS via FRED API (monthly avg)", "FEDFUNDS via CSV (monthly avg)"}

IsFredCall(c) == c.fn \in {"fetch_fred_api_json", "fetch_fred_csv"}

\* C1: in one call of load_us_fed_rate the candidates are invoked strictly in the
\* priority order API EFFR, CSV EFFR, API FEDFUNDS, CSV FEDFUNDS; the call returns
\* the series of the first candidate that gave a non-empty series with a non-missing
\* value, with the label of exactly that candidate; no candidate is invoked after it.
C1_PriorityShortCircuit ==
    variant \in WithResolver =>
        /\ SelectSeq(calls, IsFredCall) = [k \in 1..Len(tried) |-> PriorityOrder[tried[k].cand]]
        /\ \A k \in 1..(Len(tried) - 1) :
              /\ tried[k].cand < tried[k + 1].cand
              /\ ~HasValue(tried[k].s)
        /\ \A k \in 1..Len(tried) : \A j \in 1..(tried[k].cand - 1) :
              \/ \E h \in 1..(k - 1) : tried[h].cand = j
              \/ PriorityOrder[j].fn = "fetch_fred_api_json" /\ fred_api_key = ""
        /\ (Len(tried) > 0 /\ HasValue(tried[Len(tried)].s)) =>
              /\ fed_src = Candidates[tried[Len(tried)].cand].label
              /\ Candidates[tried[Len(tried)].cand].id = PriorityOrder[tried[Len(tried)].cand].id
              /\ effr_raw = tried[Len(tried)].s
              /\ pc \notin {FedPc(i) : i \in 1..4}
        /\ fed_src \in FedLabels => (Len(tried) > 0 /\ HasValue(tried[Len(tried)].s))

\* C1 witness: candidates 1 and 2 gave nothing usable, candidate 3 was accepted and
\* candidate 4 was never invoked
C1_Witness ==
    /\ pc = "done"
    /\ fed_src = "FEDFUNDS via FRED API (monthly avg)"
    /\ Len(tried) = 3
    /\ \A c \in Range(calls) : c # Call("fetch_fred_csv", "FEDFUNDS")

\* C2: the resolver returns "unavailable" with an empty series exactly when every
\* candidate it tried gave an empty or all-missing series; with any other label the
\* returned series holds a non-missing value, so a non-empty all-missing series is
\* never accepted.
C2_UnavailableIffNoneUsable ==
    (variant \in WithResolver /\ fed_src # "") =>
        /\ (fed_src = "unavailable") <=> (\A k \in 1..Len(tried) : ~HasValue(tried[k].s))
        /\ fed_src = "unavailable" => effr_raw = <<>>
        /\ fed_src # "unavailable" => (fed_src \in FedLabels /\ HasValue(effr_raw))

\* C2 witness: "unavailable" was returned although a candidate gave a non-empty,
\* all-missing series
C2_Witness ==
    /\ fed_src = "unavailable"
    /\ \E k \in 1..Len(tried) : tried[k].s # <<>>

\* C10: with an empty credential fetch_fred_api_json and fetch_bok_base_rate return
\* an empty series and issue no request; a resolver call with an empty FRED
\* credential issues requests to the two CSV candidates only.
C10_MissingCredential ==
    /\ \A id \in {"EFFR", "FEDFUNDS"} : \A resp \in FredApiAt[id][start_date] :
          fetch_fred_api_json(id, "", start_date, resp) =
              [s |-> <<>>, reqs |-> <<>>, raised |-> FALSE]
    /\ \A resp \in EcosAt[start_date] :
          fetch_bok_base_rate("", start_date, resp) =
              [s |-> <<>>, reqs |-> <<>>, raised |-> FALSE]
    /\ ecos_api_key = "" =>
          /\ bok_base = <<>>
          /\ \A k \in 1..Len(requests) : requests[k].host # "ecos"
    /\ fred_api_key = "" =>
          \A k \in 1..Len(requests) :
              requests[k].host \in {"fred_api", "fred_csv"} =>
                  requests[k] \in {Req("fred_csv", "EFFR"), Req("fred_csv", "FEDFUNDS")}

\* C10 witness: a finished run without credentials: the central-bank adapter was
\* called, and the resolver asked the two CSV exports and nothing else of FRED
C10_Witness ==
    /\ pc = "done"
    /\ variant \in WithResolver
    /\ fred_api_key = "" /\ ecos_api_key = ""
    /\ Call("fetch_bok_base_rate", "") \in Range(calls)
    /\ SelectSeq(requests, LAMBDA q : q.host # "yahoo")
         = <<Req("fred_csv", "EFFR"), Req("fred_csv", "FEDFUNDS")>>

-----------------------------------------------------------------------------
(* Properties of the calendar aligner and of rebasing *)

\* the script built the table and went on with it
Built == pc \in {"normalize", "done", "fault"}

\* the dates in [lo, hi] on which s holds a non-missing value
ObsDays(s, lo, hi) == {s[k].t : k \in {j \in 1..Len(s) : s[j].v # NaN /\ lo <= s[j].t /\ s[j].t <= hi}}

SetMax(S) == CHOOSE x \in S : \A y \in S : y <= x

SetMin(S) == CHOOSE x \in S : \A y \in S : x <= y

\* the value s holds on date d
ValueOn(s, d) == s[CHOOSE k \in 1..Len(s) : s[k].t = d /\ s[k].v # NaN].v

\* the latest non-missing value of s dated in [lo, d], missing when there is none
LatestIn(s, lo, d) ==
    IF ObsDays(s, lo, d) = {} THEN NaN ELSE ValueOn(s, SetMax(ObsDays(s, lo, d)))

\* the list of calendar days from start_date to today
IsFullCalendar(index) ==
    /\ Len(index) = Today - start_date + 1
    /\ \A i \in 1..Len(index) : index[i] = start_date + i - 1

\* the series behind each column
SeriesOf(c) ==
    IF c = "KOSPI" THEN kospi
    ELSE IF c = "USD/KRW" THEN usdk_rw
    ELSE IF c = "US Fed Funds (%)" THEN effr_raw
    ELSE bok_base

ColumnNames == {"KOSPI", "USD/KRW", "US Fed Funds (%)", "BOK Base Rate (%)"}

\* day d of the window holds a value in some column of the frame as built
DayHasData(d) ==
    \/ \E c \in {"KOSPI", "USD/KRW", "BOK Base Rate (%)"} :
          LatestIn(SeriesOf(c), start_date, d) # NaN
    \/ IF variant = "bokapi" THEN LatestIn(effr_raw, start_date, d) # NaN
       ELSE ObsDays(effr_raw, start_date, Today) # {}

\* C3 as claimed: the aligned table has exactly one row per calendar day of
\* [start_date, today], and every column is defined on exactly that index.
C3_Original ==
    Built =>
        /\ IsFullCalendar(df.index)
        /\ \A c \in DOMAIN df.cols : Len(df.cols[c]) = Len(df.index)

\* C3 amended: in the dual-axis scripts the table has exactly one row per calendar
\* day of [start_date, today]; in bokapi and bokapi_v2, whose Clean step drops the
\* rows that are missing in every column, its rows are exactly the days of the window
\* on which some column holds a value, ascending and without duplicates; in every
\* script each column is defined on exactly the table's index.
C3_AlignedIndex ==
    Built =>
        /\ \A c \in DOMAIN df.cols : Len(df.cols[c]) = Len(df.index)
        /\ \A i \in 1..(Len(df.index) - 1) : df.index[i] < df.index[i + 1]
        /\ variant = "dualaxis" => IsFullCalendar(df.index)
        /\ variant # "dualaxis" =>
              Range(df.index) = {d \in start_date..Today : DayHasData(d)}

\* C3 witness: bokapi_v2 plotted a table from which Clean dropped leading days
C3_Witness ==
    /\ variant = "bokapi_v2"
    /\ pc = "done"
    /\ Len(df.index) > 0
    /\ Len(df.index) < Today - start_date + 1

\* C4: a quote column (KOSPI, USD/KRW) is forward-filled only: each day of the table
\* holds the quote's latest observation at or before it, so a non-business day holds
\* the most recent prior business day's value, and each day before the first
\* observation is missing, never back-filled.
C4_QuoteForwardFillOnly ==
    Built =>
        \A c \in {"KOSPI", "USD/KRW"} \cap DOMAIN df.cols :
            /\ \A k \in 1..Len(SeriesOf(c)) : IsBusinessDay(SeriesOf(c)[k].t)
            /\ \A i \in 1..Len(df.index) :
                  LET d == df.index[i] IN
                  /\ df.cols[c][i] = LatestIn(SeriesOf(c), start_date, d)
                  /\ d < SetMin(IndexOf(SeriesOf(c))) => IsNaN(df.cols[c][i])
                  /\ (~IsBusinessDay(d) /\ d > SetMin(IndexOf(SeriesOf(c)))) =>
                        df.cols[c][i] =
                            ValueOn(SeriesOf(c),
                                    SetMax({x \in IndexOf(SeriesOf(c)) : x < d}))

\* C4 witness: KOSPI starts on the second day of the window: the first day is
\* missing and the closing Saturday holds Friday's value
C4_Witness ==
    /\ pc = "done"
    /\ variant = "dualaxis"
    /\ "KOSPI" \in DOMAIN df.cols
    /\ IsNaN(df.cols["KOSPI"][1])
    /\ ~IsBusinessDay(df.index[Len(df.index)])
    /\ IsBusinessDay(df.index[Len(df.index) - 1])
    /\ ~IsNaN(df.cols["KOSPI"][Len(df.index)])
    /\ df.cols["KOSPI"][Len(df.index)] = df.cols["KOSPI"][Len(df.index) - 1]

\* C5: the US Fed Funds column of the scripts that resolve it is filled forward and
\* backward: when the first observation of the resolved series inside the window is
\* on day k, every earlier day holds exactly the day-k value and every later day
\* holds the latest observation at or before it.
C5_FedForwardAndBackward ==
    (Built /\ variant \in WithResolver /\ ObsDays(effr_raw, start_date, Today) # {}) =>
        LET k == SetMin(ObsDays(effr_raw, start_date, Today)) IN
        /\ "US Fed Funds (%)" \in DOMAIN df.cols
        /\ IsFullCalendar(df.index)
        /\ \A i \in 1..Len(df.index) :
              df.cols["US Fed Funds (%)"][i] =
                  IF df.index[i] < k THEN ValueOn(effr_raw, k)
                  ELSE LatestIn(effr_raw, start_date, df.index[i])

\* C5 witness: the first observation in the window is after the first day and
\* before the last one
C5_Witness ==
    /\ pc = "done"
    /\ variant \in WithResolver
    /\ ObsDays(effr_raw, start_date, Today) # {}
    /\ SetMin(ObsDays(effr_raw, start_date, Today)) > start_date
    /\ SetMin(ObsDays(effr_raw, start_date, Today)) < Today
    /\ Today \notin ObsDays(effr_raw, start_date, Today)

BokColumn == df.cols["BOK Base Rate (%)"]

SameMonth(a, b) == yyyymm(a) = yyyymm(b)

\* b is in the month after the month of a
NextMonth(a, b) == SameMonth(MonthEnd(YearOf(a), MonthOf(a)) + 1, b)

\* C6 as claimed: every day within an observed month equals that month's value, the
\* following month's days before its own month-end keep the previous month's value,
\* and days before the first observation are missing.
C6_Original ==
    (Built /\ "BOK Base Rate (%)" \in DOMAIN df.cols) =>
        \A i \in 1..Len(df.index) : \A k \in 1..Len(bok_base) :
            LET d == df.index[i]
                e == bok_base[k]
            IN  /\ SameMonth(d, e.t) => BokColumn[i] = e.v
                /\ (NextMonth(e.t, d) /\ d < MonthEnd(YearOf(d), MonthOf(d))) =>
                      BokColumn[i] = e.v
                /\ d < SetMin(IndexOf(bok_base)) => IsNaN(BokColumn[i])

\* C6 amended: every observation of the BOK Base Rate is stamped on the last day of
\* its month, and each day of the table holds the value of the latest stamp at or
\* before it inside the window: of an observed month only the last day holds that
\* month's value, the following month's days before its own month-end keep it, the
\* earlier days of the observed month hold the previous month's value, and the days
\* before the first stamp in the window are missing.
C6_MonthEndForwardFill ==
    /\ \A k \in 1..Len(bok_base) :
          MonthOf(bok_base[k].t + 1) # MonthOf(bok_base[k].t)
    /\ (Built /\ "BOK Base Rate (%)" \in DOMAIN df.cols) =>
          \A i \in 1..Len(df.index) :
              BokColumn[i] = LatestIn(bok_base, start_date, df.index[i])

\* C6 witness: the window starts before a month-end stamp: the day before it is
\* missing, the month-end holds the month's value, the next month's first day keeps it
C6_Witness ==
    /\ pc = "done"
    /\ variant = "dualaxis"
    /\ "BOK Base Rate (%)" \in DOMAIN df.cols
    /\ \E i \in 2..(Len(df.index) - 1) :
          /\ IsNaN(BokColumn[i - 1])
          /\ SameMonth(df.index[i - 1], df.index[i])
          /\ ~IsNaN(BokColumn[i])
          /\ ~SameMonth(df.index[i], df.index[i + 1])
          /\ BokColumn[i + 1] = BokColumn[i]

\* y is x * 100 / f, exactly; a missing x stays missing
Scaled(x, f, y) ==
    IF IsNaN(x) THEN IsNaN(y)
    ELSE ~IsNaN(y) /\ y[1] * x[2] * f[1] = 100 * x[1] * f[2] * y[2]

\* the first non-missing value of a column
FirstValue(col) == col[SetMin({i \in 1..Len(col) : col[i] # NaN})]

\* column c of the plotted frame is column c of the table rebased to 100
IsRebased(c) ==
    /\ c \in DOMAIN plot_df.cols
    /\ Len(plot_df.cols[c]) = Len(df.cols[c])
    /\ IF FirstValue(df.cols[c])[1] # 0
       THEN \A i \in 1..Len(df.cols[c]) :
                Scaled(df.cols[c][i], FirstValue(df.cols[c]), plot_df.cols[c][i])
       ELSE plot_df.cols[c] = df.cols[c]

\* the columns a script rebases: KOSPI and USD/KRW in the dual-axis scripts, every
\* column in bokapi and bokapi_v2
RebasedColumns ==
    IF variant = "dualaxis" THEN {"KOSPI", "USD/KRW"} \cap DOMAIN df.cols
    ELSE DOMAIN df.cols

\* C7: with normalization on, each rebased column is multiplied by 100 / f, f being its
\* first non-missing value in the table, so that value becomes 100 and the ratios
\* are kept; when f is zero the column is left as it is.
C7_Rebasing ==
    (pc = "done" /\ normalize) =>
        \A c \in RebasedColumns :
            /\ IsRebased(c)
            /\ FirstValue(df.cols[c])[1] # 0 => FirstValue(plot_df.cols[c]) = <<100, 1>>

\* C7 witness: KOSPI 1, 2 was drawn as 100, 200 and USD/KRW, which starts at 0, as it is
C7_Witness ==
    /\ pc = "done" /\ normalize
    /\ {"KOSPI", "USD/KRW"} \subseteq DOMAIN df.cols
    /\ <<1, 1>> \in Range(df.cols["KOSPI"]) /\ <<2, 1>> \in Range(df.cols["KOSPI"])
    /\ <<100, 1>> \in Range(plot_df.cols["KOSPI"])
    /\ <<200, 1>> \in Range(plot_df.cols["KOSPI"])
    /\ FirstValue(df.cols["USD/KRW"]) = <<0, 1>>
    /\ <<1, 1>> \in Range(plot_df.cols["USD/KRW"])

\* C8 as claimed: in every script, with normalization on, the plotted rate columns
\* equal their aligned values.
C8_Original ==
    (pc = "done" /\ normalize) =>
        \A c \in RateNames \cap DOMAIN df.cols :
            c \in DOMAIN plot_df.cols /\ plot_df.cols[c] = df.cols[c]

\* C8 amended: with normalization on, the dual-axis scripts plot the rate columns
\* with their aligned values and rescale KOSPI and USD/KRW only; bokapi and
\* bokapi_v2 rebase every column, the two rate columns included.
C8_RatesRebasedOnSingleAxisOnly ==
    (pc = "done" /\ normalize) =>
        \A c \in RateNames \cap DOMAIN df.cols :
            IF variant = "dualaxis"
            THEN c \in DOMAIN plot_df.cols /\ plot_df.cols[c] = df.cols[c]
            ELSE IsRebased(c)

\* C8 witness: bokapi_v2 drew a US Fed Funds column that is not the aligned one
C8_Witness ==
    /\ pc = "done" /\ normalize
    /\ variant = "bokapi_v2"
    /\ "US Fed Funds (%)" \in DOMAIN df.cols
    /\ plot_df.cols["US Fed Funds (%)"] # df.cols["US Fed Funds (%)"]

\* C9 as claimed: the columns of the table are exactly the series with an
\* observation inside the window; a series without one is never a column.
C9_Original ==
    Built =>
        DOMAIN df.cols = {c \in ColumnNames : ObsDays(SeriesOf(c), start_date, Today) # {}}


-----------------------------------------------------------------------------
(* Properties of the source adapters, one call at a time *)

\* the call of fn has returned
Returned(fn) == invocation.fn = fn /\ invocation.returned

CsvFailure(resp) == ~resp.ok \/ ~resp.parses \/ ~resp.cols

\* C12: fetch_fred_csv, in every script that defines it, returns an empty series on
\* any network failure or parse failure and raises nothing.
C12_Original ==
    (Returned("fetch_fred_csv") \/ Returned("fetch_fred_csv_bokapi")) =>
        /\ ~invocation.ret.raised
        /\ CsvFailure(invocation.resp) => invocation.ret.s = <<>>


TimeKeys == <<"TIME", "time", "TIME_PERIOD">>

ValueKeys == <<"DATA_VALUE", "data_value", "OBS_VALUE">>

\* the value under the first of keys that the row holds
FirstPresent(item, keys) ==
    IF keys[1] \in DOMAIN item THEN item[keys[1]]
    ELSE IF keys[2] \in DOMAIN item THEN item[keys[2]]
    ELSE Get(item, keys[3])

\* the rows in the first naming convention, each field read with Read
FirstConvention(rows, Read(_, _)) ==
    [i \in 1..Len(rows) |-> [TIME |-> Read(rows[i], TimeKeys), DATA_VALUE |-> Read(rows[i], ValueKeys)]]

\* what the call of fetch_bok_base_rate gives for the rows in the first convention
BokOfFirstConvention(Read(_, _)) ==
    fetch_bok_base_rate(invocation.api_key, invocation.start,
                        [ok |-> invocation.resp.ok,
                         row |-> FirstConvention(invocation.resp.row, Read)]).s

\* C13: each field of a row is read from the first key present, in the
\* order TIME, time, TIME_PERIOD and DATA_VALUE, data_value, OBS_VALUE, so the answer
\* gives the pairs of the same rows written in the first convention.
C13_Original ==
    Returned("fetch_bok_base_rate") => invocation.ret.s = BokOfFirstConvention(FirstPresent)



Adapters ==
    {"fetch_yf", "fetch_fred_csv", "fetch_fred_csv_bokapi", "fetch_fred_api_json",
     "fetch_bok_base_rate"}

\* the timestamps of s increase strictly
StrictlyIncreasing(s) == \A k \in 1..(Len(s) - 1) : s[k].t < s[k + 1].t

\* C14: the series an adapter returns has strictly increasing timestamps and no date
\* twice, whatever the upstream answer, repeated and out-of-order rows included.
C14_Original ==
    (invocation.fn \in Adapters /\ invocation.returned) => StrictlyIncreasing(invocation.ret.s)


-----------------------------------------------------------------------------
(* Properties of the aligner on one series *)

\* the column "Build daily frame" made of the series of the call
FilledColumn == invocation.ret.cols[invocation.id]

-----------------------------------------------------------------------------
(* Properties of the rows of the central-bank adapter *)

\* the two fields of a row, as lines 131-132 read them
TimeOf(item) == Or3(Get(item, "TIME"), Get(item, "time"), Get(item, "TIME_PERIOD"))

ValueOf(item) == Or3(Get(item, "DATA_VALUE"), Get(item, "data_value"), Get(item, "OBS_VALUE"))

\* a row with a parseable year-month and a value that is not absent, "" or "." and
\* that reads as a number
ValidRow(item) ==
    /\ ParsesYearMonth(TimeOf(item))
    /\ TimeOf(item).n[2] \in 1..12
    /\ ~IsPlaceholder(ValueOf(item))
    /\ ParsesFloat(ValueOf(item))

\* the date is not decreasing along s
Ascending(s) == \A k \in 1..(Len(s) - 1) : s[k].t <= s[k + 1].t

\* C19: the series of fetch_bok_base_rate holds one entry for every row with a
\* parseable year-month and a value that is not absent, empty or ".", and none for any
\* other row; the entries are sorted ascending by date; the series is empty exactly
\* when there is no credential or no valid row.
C19_Original ==
    Returned("fetch_bok_base_rate") =>
        LET valid == IF invocation.api_key = "" THEN <<>>
                     ELSE SelectSeq(invocation.resp.row, ValidRow)
        IN  /\ Len(invocation.ret.s) = Len(valid)
            /\ Ascending(invocation.ret.s)
            /\ invocation.ret.s = <<>> <=> (invocation.api_key = "" \/ valid = <<>>)


\* the last day of month m of year y by the calendar rule
LastDayOfMonth(y, m) ==
    IF m \in {1, 3, 5, 7, 8, 10, 12} THEN 31
    ELSE IF m \in {4, 6, 9, 11} THEN 30
    ELSE IF y % 400 = 0 \/ (y % 4 = 0 /\ y % 100 # 0) THEN 29 ELSE 28

\* a row that reaches the month-end computation with a month of the calendar
DatedRow(item) ==
    /\ Truthy(TimeOf(item))
    /\ ~IsPlaceholder(ValueOf(item))
    /\ ParsesYearMonth(TimeOf(item))
    /\ TimeOf(item).n[2] \in 1..12

\* a row that reaches the month-end computation with a month that is none
UndatedRow(item) ==
    /\ Truthy(TimeOf(item))
    /\ ~IsPlaceholder(ValueOf(item))
    /\ ParsesYearMonth(TimeOf(item))
    /\ TimeOf(item).n[2] \notin 1..12

\* C20: for every year y and month m in 1..12 the timestamp computed for a row
\* "yyyymm" is the last calendar day of that month (28 or 29 for February by the
\* leap-year rule, 31 December of year y for December); a row whose month is outside
\* 1..12 is skipped and the remaining rows are still processed.
C20_MonthEnd ==
    (Returned("fetch_bok_base_rate") /\ invocation.api_key # "") =>
        LET rows  == invocation.resp.row
            dated == SelectSeq(rows, DatedRow)
            times == BokRows(rows, 1, <<>>, <<>>).times
        IN  /\ Len(times) = Len(dated)
            /\ \A i \in 1..Len(dated) :
                  LET y == TimeOf(dated[i]).n[1]
                      m == TimeOf(dated[i]).n[2]
                  IN  /\ times[i] = Ordinal(y, m, LastDayOfMonth(y, m))
                      /\ YearOf(times[i]) = y /\ MonthOf(times[i]) = m
                      /\ MonthOf(times[i] + 1) # m
            /\ (\A i \in 1..Len(dated) : ParsesFloat(ValueOf(dated[i]))) =>
                  /\ Len(invocation.ret.s) = Len(dated)
                  /\ \A i \in 1..Len(dated) :
                        \E k \in 1..Len(invocation.ret.s) :
                            invocation.ret.s[k] = [t |-> times[i], v |-> ValueOf(dated[i]).n]

\* C20 witness: a row of month 13 came before a row of December 2024, and the series
\* holds the one entry of 31 December 2024
C20_Witness ==
    /\ Returned("fetch_bok_base_rate")
    /\ Len(invocation.resp.row) = 2
    /\ UndatedRow(invocation.resp.row[1])
    /\ TimeOf(invocation.resp.row[2]).n = <<2024, 12>>
    /\ invocation.ret.s = <<[t |-> Ordinal(2024, 12, 31), v |-> Num(1)]>>


-----------------------------------------------------------------------------
(* Properties of the requests of one run *)

\* the host each adapter asks
HostOf ==
    [fetch_yf |-> "yahoo", fetch_fred_csv |-> "fred_csv", fetch_fred_api_json |-> "fred_api",
     fetch_bok_base_rate |-> "ecos"]

\* how many requests of the run went to hosts, how many calls were of fn
RequestsTo(hosts) == Cardinality({k \in 1..Len(requests) : requests[k].host \in hosts})

CallsOf(fn) == Cardinality({k \in 1..Len(calls) : calls[k].fn = fn})

\* C18: an adapter invocation issues at most one outbound request, one call of the
\* resolver invokes each candidate at most once, and one resolve issues at most four
\* requests however many of them fail.
C18_NoRetry ==
    /\ \A fn \in DOMAIN HostOf : RequestsTo({HostOf[fn]}) <= CallsOf(fn)
    /\ Len(requests) <= Len(calls)
    /\ \A k \in 1..Len(requests) : \A j \in 1..Len(requests) : requests[k] = requests[j] => k = j
    /\ variant \in WithResolver =>
          /\ \A i \in 1..Len(PriorityOrder) :
                Cardinality({k \in 1..Len(calls) : calls[k] = PriorityOrder[i]}) <= 1
          /\ \A k \in 1..Len(tried) : \A j \in 1..Len(tried) : tried[k].cand = tried[j].cand => k = j
          /\ RequestsTo({"fred_api", "fred_csv"}) <= 4

\* C18 witness: with a credential all four candidates failed, each was asked once,
\* and the resolve is over with four requests
C18_Witness ==
    /\ pc = "done"
    /\ variant \in WithResolver
    /\ fed_src = "unavailable"
    /\ Len(tried) = 4
    /\ \A k \in 1..4 : tried[k].s = EmptySeries
    /\ RequestsTo({"fred_api", "fred_csv"}) = 4


-----------------------------------------------------------------------------
(* Properties of the calls of a session *)

\* the arguments of the k-th call of the session
ArgsOf(k) == Args(log[k].id, log[k].api_key, log[k].start)

SameCall(i, j) == log[i].fn = log[j].fn /\ ArgsOf(i) = ArgsOf(j)

\* the k-th call ran the body of an adapter
RanAdapter(k) == log[k].fn \in Adapters /\ ~log[k].hit

Decorated ==
    {"fetch_yf", "fetch_fred_csv", "fetch_fred_api_json", "fetch_bok_base_rate",
     "load_us_fed_rate"}

\* C17: through st.cache_data, over any sequence of invocations, two calls of a
\* function with identical keys (identifier, start date, credential) return identical
\* results, and a call never returns a result computed for a different start date or
\* a different credential: a result handed back from the cache was computed by an
\* earlier call of the same function with the same identifier, start date and
\* credential.
C17_Memoized ==
    /\ \A i \in 1..Len(log) : \A j \in 1..Len(log) :
          (log[i].fn \in Decorated /\ SameCall(i, j)) => log[i].ret = log[j].ret
    /\ \A k \in 1..Len(log) :
          IF log[k].hit
          THEN /\ log[k].fn \in Decorated
               /\ log[k].by < k
               /\ ~log[log[k].by].hit
               /\ SameCall(k, log[k].by)
               /\ log[k].ret = log[log[k].by].ret
          ELSE log[k].by = k
    /\ \A e \in cache :
          /\ e.by \in 1..Len(log)
          /\ e.key = CacheKey(log[e.by].fn, ArgsOf(e.by))
          /\ e.ret = log[e.by].ret

\* C17 witness: load_us_fed_rate was called twice with the same credential and start
\* date while the upstream data changed; the second call got the result of the first
C17_Witness ==
    /\ Len(log) >= 3
    /\ LET n == Len(log) IN
       /\ log[n].fn = "load_us_fed_rate" /\ log[n].hit
       /\ log[n].api_key = "key"
       /\ log[log[n].by].up.main = "one" /\ log[n].up.main = "two"
       /\ log[n].ret.src = "EFFR via FRED API (daily)"
       /\ log[n].ret.s = TableOf("one")


-----------------------------------------------------------------------------
(* Properties of the rebasing step *)

\* the script has built its table and come to the rebasing step
AtRebasing == pc \in {"normalize", "done", "fault"}

\* the column c of the aligned table holds a value
ColumnHasValue(c) == \E i \in 1..Len(df.cols[c]) : ~IsNaN(df.cols[c][i])

\* C21: in every dashboard, whenever normalization is enabled, each column that
\* rebasing is applied to holds a non-missing value in the aligned window, so its
\* first non-missing value is defined and the run reaches the plotting step.
C21_Original ==
    (AtRebasing /\ normalize) =>
        /\ \A c \in RebasedColumns : ColumnHasValue(c)
        /\ pc # "fault"


\* the values the series behind column c holds
RawValues(c) == {SeriesOf(c)[k].v : k \in 1..Len(SeriesOf(c))}

\* C22: rebasing works on a copy: after the rebasing step the aligned table df, which
\* feeds the data table and the status caption, still holds the raw values of every
\* column as the build step left them, whether or not normalization is enabled, and
\* each column of the rebased copy has missing cells on exactly the days on which the
\* aligned column has them.
C22_RebasingOnCopy ==
    pc = "done" =>
        /\ df = Clean(variant, BuildDailyFrame(variant, start_date, kospi, usdk_rw,
                                               effr_raw, bok_base))
        /\ \A c \in DOMAIN df.cols : \A i \in 1..Len(df.index) :
              IsNaN(df.cols[c][i]) \/ df.cols[c][i] \in RawValues(c)
        /\ plot_df.index = df.index
        /\ DOMAIN plot_df.cols \subseteq DOMAIN df.cols
        /\ \A c \in DOMAIN plot_df.cols :
              /\ Len(plot_df.cols[c]) = Len(df.cols[c])
              /\ \A i \in 1..Len(df.index) :
                    IsNaN(plot_df.cols[c][i]) <=> IsNaN(df.cols[c][i])
        /\ ~normalize => \A c \in DOMAIN plot_df.cols : plot_df.cols[c] = df.cols[c]

\* C22 witness: with normalization on, KOSPI 1, 1 after a missing first day was drawn
\* as 100, 100 after a missing first day, and the table still holds 1, 1
C22_Witness ==
    /\ pc = "done" /\ normalize
    /\ "KOSPI" \in DOMAIN df.cols
    /\ Len(df.index) = 3
    /\ df.cols["KOSPI"] = <<NaN, Num(1), Num(1)>>
    /\ plot_df.cols["KOSPI"] = <<NaN, Num(100), Num(100)>>

====
